---- MODULE Spec2Model ----
(***************************************************************************)
(* Model of bin/runviewer.pyw, the launcher of the Noysim viewer.          *)
(*                                                                         *)
(*   6  import noysim.viewer                                               *)
(*   8  app = noysim.viewer.wx.PySimpleApp()                               *)
(*   9  app.frame = noysim.viewer.ViewerFrame()                            *)
(*  10  app.frame.Show()                                                   *)
(*  11  app.MainLoop()                                                     *)
(*                                                                         *)
(* The script is straight-line Python without try/except: every statement  *)
(* either completes and control falls through to the next statement, or    *)
(* raises, and the uncaught exception ends the script.  One action models  *)
(* the completion of a statement and one its failure.  MainLoop is a       *)
(* blocking call, so it has an entry, a running phase in which the GUI     *)
(* library dispatches events, and a return.                                *)
(***************************************************************************)
EXTENDS Naturals, Sequences, FiniteSets

\* Largest number of events the event loop dispatches before it must end.
MaxEvents == 3

\* README "Additional libraries": the libraries that have to be installed.
AdditionalLibraries ==
    {"Numpy", "Matplotlib", "wxPython", "Xlwt", "RPyC", "Scipy", "OpenPyXL"}

\* README "Noysim installation": the Noysim library itself, "installed in
\* the same way as the libraries above".
NoysimLibrary == {"Noysim"}

RequiredLibraries == AdditionalLibraries \cup NoysimLibrary

\* The statements of the script in program order, named by what they do.
Steps == <<"import", "app", "frame", "show", "loop">>

VARIABLES
    installed,  \* the libraries correctly installed on the host
    pc,         \* the statement about to run, or "done" / "error"
    imported,   \* noysim.viewer has been imported
    apps,       \* the application objects constructed so far
    frames,     \* the ViewerFrame objects constructed so far
    appFrame,   \* the value of app.frame ({} while the attribute is unset)
    shown,      \* Show() has completed on the window
    loop,       \* MainLoop: "idle", "running", "returned" or "aborted"
    events,     \* events dispatched by the running event loop
    trace,      \* the statements completed (for MainLoop: entered), in order
    failedAt    \* the statement that raised, or "none"

vars == <<installed, pc, imported, apps, frames, appFrame, shown, loop,
          events, trace, failedAt>>

\* What the statements of the script have built so far.
effects == <<imported, apps, frames, appFrame, shown, trace>>

TypeOK ==
    /\ installed \subseteq RequiredLibraries
    /\ pc \in {"import", "app", "frame", "show", "loop", "done", "error"}
    /\ imported \in BOOLEAN
    /\ apps \subseteq 1..2
    /\ frames \subseteq 1..2
    /\ appFrame \subseteq frames
    /\ shown \in BOOLEAN
    /\ loop \in {"idle", "running", "returned", "aborted"}
    /\ events \in 0..(MaxEvents + 1)
    /\ trace \in Seq({"import", "app", "frame", "show", "loop"})
    /\ failedAt \in {"none", "import", "app", "frame", "show", "loop"}

\* The interpreter starts at the first statement; nothing exists yet.  The
\* host may have any subset of the required libraries installed.
Init ==
    /\ installed \in SUBSET RequiredLibraries
    /\ pc = "import"
    /\ imported = FALSE
    /\ apps = {}
    /\ frames = {}
    /\ appFrame = {}
    /\ shown = FALSE
    /\ loop = "idle"
    /\ events = 0
    /\ trace = <<>>
    /\ failedAt = "none"

\* Lines 10 and 11 exchanged: the event loop would run before Show().
NextLineSwapped(step) ==
    CASE step = "import" -> "app"
      [] step = "app"    -> "frame"
      [] step = "frame"  -> "loop"
      [] step = "loop"   -> "show"
      [] step = "show"   -> "done"

\* Sequential control flow: the statement after `step`, "done" after the last.
NextLine(step) ==
    CASE step = "import" -> "app"
      [] step = "app"    -> "frame"
      [] step = "frame"  -> "show"
      [] step = "show"   -> "loop"
      [] step = "loop"   -> "done"

\* A viewer module that would load with wxPython and Noysim alone.
ImportCanSucceedLazy(libs) == {"wxPython", "Noysim"} \subseteq libs

\* The import of noysim.viewer can succeed only if every required library
\* is installed correctly.
ImportCanSucceed(libs) == RequiredLibraries \subseteq libs

\* An uncaught exception raised by statement `step`: the script ends, what
\* was built stays as it is.
Raise(step) ==
    /\ pc' = "error"
    /\ failedAt' = step
    /\ UNCHANGED <<installed, imported, apps, frames, appFrame, shown,
                   events, trace>>

\* line 6: import noysim.viewer
Import ==
    /\ pc = "import"
    /\ ImportCanSucceed(installed)
    /\ imported' = TRUE
    /\ trace' = Append(trace, "import")
    /\ pc' = NextLine("import")
    /\ UNCHANGED <<installed, apps, frames, appFrame, shown, loop, events,
                   failedAt>>

\* line 6 raises (ImportError or any error while the modules load)
ImportFail ==
    /\ pc = "import"
    /\ Raise("import")
    /\ UNCHANGED loop

\* line 8: app = noysim.viewer.wx.PySimpleApp()
MkApp ==
    /\ pc = "app"
    /\ imported
    /\ apps' = apps \cup {Cardinality(apps) + 1}
    /\ trace' = Append(trace, "app")
    /\ pc' = NextLine("app")
    /\ UNCHANGED <<installed, imported, frames, appFrame, shown, loop,
                   events, failedAt>>

\* line 8 raises
MkAppFail ==
    /\ pc = "app"
    /\ Raise("app")
    /\ UNCHANGED loop

\* The window constructed but kept out of app.frame.
MkFrameDetached ==
    /\ pc = "frame"
    /\ apps # {}
    /\ frames' = frames \cup {Cardinality(frames) + 1}
    /\ trace' = Append(trace, "frame")
    /\ pc' = NextLine("frame")
    /\ UNCHANGED <<installed, imported, apps, appFrame, shown, loop, events,
                   failedAt>>

\* line 9: app.frame = noysim.viewer.ViewerFrame()
\* The right-hand side constructs the window, the assignment attaches it.
MkFrame ==
    /\ pc = "frame"
    /\ apps # {}
    /\ LET f == Cardinality(frames) + 1 IN
         /\ frames' = frames \cup {f}
         /\ appFrame' = {f}
    /\ trace' = Append(trace, "frame")
    /\ pc' = NextLine("frame")
    /\ UNCHANGED <<installed, imported, apps, shown, loop, events, failedAt>>

\* The exception of line 9 swallowed, the script carrying on.
MkFrameFailSwallowed ==
    /\ pc = "frame"
    /\ pc' = NextLine("frame")
    /\ failedAt' = "frame"
    /\ UNCHANGED <<installed, imported, apps, frames, appFrame, shown, loop,
                   events, trace>>

\* line 9 raises: the constructor fails, nothing is assigned
MkFrameFail ==
    /\ pc = "frame"
    /\ Raise("frame")
    /\ UNCHANGED loop

\* Show() dropping the reference to the window.
ShowDetaching ==
    /\ pc = "show"
    /\ appFrame # {}
    /\ shown' = TRUE
    /\ appFrame' = {}
    /\ trace' = Append(trace, "show")
    /\ pc' = NextLine("show")
    /\ UNCHANGED <<installed, imported, apps, frames, loop, events, failedAt>>

\* line 10: app.frame.Show()
Show ==
    /\ pc = "show"
    /\ appFrame # {}
    /\ shown' = TRUE
    /\ trace' = Append(trace, "show")
    /\ pc' = NextLine("show")
    /\ UNCHANGED <<installed, imported, apps, frames, appFrame, loop, events,
                   failedAt>>

\* line 10 raises
ShowFail ==
    /\ pc = "show"
    /\ Raise("show")
    /\ UNCHANGED loop

\* A MainLoop that would start the loop and give control back at once.
MainLoopEnterNonBlocking ==
    /\ pc = "loop"
    /\ loop = "idle"
    /\ apps # {}
    /\ loop' = "running"
    /\ trace' = Append(trace, "loop")
    /\ pc' = NextLine("loop")
    /\ UNCHANGED <<installed, imported, apps, frames, appFrame, shown,
                   events, failedAt>>

\* line 11: app.MainLoop() is called; the call blocks, pc stays on line 11
MainLoopEnter ==
    /\ pc = "loop"
    /\ loop = "idle"
    /\ apps # {}
    /\ loop' = "running"
    /\ trace' = Append(trace, "loop")
    /\ UNCHANGED <<installed, pc, imported, apps, frames, appFrame, shown,
                   events, failedAt>>

\* line 11, while blocked: the event loop dispatches one event
DispatchEvent ==
    /\ pc = "loop"
    /\ loop = "running"
    /\ events < MaxEvents
    /\ events' = events + 1
    /\ UNCHANGED <<installed, pc, imported, apps, frames, appFrame, shown,
                   loop, trace, failedAt>>

\* line 11: MainLoop returns; it is the last statement, the script ends
MainLoopReturn ==
    /\ pc = "loop"
    /\ loop = "running"
    /\ loop' = "returned"
    /\ pc' = NextLine("loop")
    /\ UNCHANGED <<installed, imported, apps, frames, appFrame, shown,
                   events, trace, failedAt>>

\* line 11 raises, either on the call or out of the running loop
MainLoopFail ==
    /\ pc = "loop"
    /\ loop \in {"idle", "running"}
    /\ Raise("loop")
    /\ loop' = IF loop = "running" THEN "aborted" ELSE loop

Next ==
    \/ Import
    \/ ImportFail
    \/ MkApp
    \/ MkAppFail
    \/ MkFrame
    \/ MkFrameFail
    \/ Show
    \/ ShowFail
    \/ MainLoopEnter
    \/ DispatchEvent
    \/ MainLoopReturn
    \/ MainLoopFail

Spec == Init /\ [][Next]_vars

\* The claim about the blocking loop assumes that the event loop eventually
\* returns (the window gets closed): weak fairness of the return.  The other
\* statements are run by the interpreter without waiting for anything.
LiveSpec ==
    /\ Init
    /\ [][Next]_vars
    /\ WF_vars(MainLoopReturn)

----------------------------------------------------------------------------
\* s is an initial segment of t.
IsPrefix(s, t) ==
    /\ Len(s) <= Len(t)
    /\ \A i \in 1..Len(s) : s[i] = t[i]

\* C1: the launcher steps happen in program order, each at most once: the
\* statements completed so far are always an initial segment of
\* import, app, frame, show, loop; the window is never constructed before
\* the application object exists, never shown before it is attached, and the
\* event loop is never entered before the window has been shown.
C1_LauncherOrder ==
    /\ IsPrefix(trace, Steps)
    /\ (frames # {} => apps # {})
    /\ (shown => appFrame # {})
    /\ (loop # "idle" => shown)

\* A run that took all the steps and ended.
C1_Witness == pc = "done" /\ trace = Steps

C3_BlockingLastAction ==
    /\ [](pc = "done" => loop = "returned" /\ trace = Steps)
    /\ [][loop = "running" =>
            IF loop' = "running"
            THEN UNCHANGED <<pc, effects>>
            ELSE \/ pc' = "done" /\ loop' = "returned"
                 \/ pc' = "error" /\ loop' = "aborted"]_vars
    /\ [][(pc # "done" /\ pc' = "done") <=>
            (loop # "returned" /\ loop' = "returned")]_vars
    /\ (loop = "running") ~> (pc \in {"done", "error"})

\* The loop ran, dispatched events, returned, and the script ended.
C3_Witness == pc = "done" /\ loop = "returned" /\ events > 0

\* C4: at most one application object and at most one ViewerFrame are ever
\* created, and whenever a ViewerFrame exists it is the one app.frame of the
\* single application object refers to.
C4_OneAppOneWindow ==
    /\ Cardinality(apps) <= 1
    /\ Cardinality(frames) <= 1
    /\ (frames # {} => Cardinality(apps) = 1 /\ appFrame = frames)

\* Both objects exist and the window is attached.
C4_Witness ==
    /\ Cardinality(apps) = 1
    /\ Cardinality(frames) = 1
    /\ appFrame = frames
    /\ shown

\* C5: no failure handling: a failure is recorded exactly when the run is in
\* its error state; a failing step moves from the failing statement to the
\* error state and leaves what the completed steps built as it was; and
\* nothing runs after the error (no retry, no later step).
C5_NoFailureHandling ==
    /\ [](failedAt # "none" <=> pc = "error")
    /\ [][pc # "error"]_vars
    /\ [][failedAt' # failedAt =>
            /\ failedAt = "none"
            /\ failedAt' = pc
            /\ pc' = "error"
            /\ UNCHANGED effects]_vars

\* Show() failed after the window had been constructed and attached.
C5_Witness ==
    /\ pc = "error"
    /\ failedAt = "show"
    /\ appFrame # {}
    /\ ~shown

\* C6: once app.frame is assigned, no later step reassigns or clears it.
C6_FrameStaysAttached == [][appFrame # {} => appFrame' = appFrame]_vars

\* The event loop is over and app.frame still refers to the window.
C6_Witness ==
    /\ loop \in {"returned", "aborted"}
    /\ frames # {}
    /\ appFrame = frames

====
